---------------------------- MODULE Spec2Model ----------------------------
(***************************************************************************)
(* A model of the obsidian-weather-insert plugin (src/main.ts).            *)
(*                                                                         *)
(* Strings are TLA+ strings, read as sequences of UTF-16 code units the    *)
(* way JavaScript reads them (Len is String.length).  The module is ASCII, *)
(* so every non-ASCII code unit of the source is written as an ASCII       *)
(* stand-in of the same length:                                            *)
(*      degree sign  -> "*"      ellipsis -> "_"     check mark -> "+"     *)
(*      right arrow  -> ">"                                                *)
(*      one-unit icons:  U+26C5 -> "^"     U+26C8 -> "!"                   *)
(*      two-unit icons:  "@" followed by a letter (see the Icon* names)    *)
(* Numbers of the JSON payloads are kept in tenths (184 is 18.4).          *)
(***************************************************************************)
EXTENDS Integers, Sequences, FiniteSets, TLC

VARIABLES
    settings,   \* WeatherInsertPlugin.settings
    doc,        \* the editor's document (Editor.getValue())
    cursor,     \* the editor's cursor, [line, ch], both 0-based
    host,       \* where the host leaves the cursor after Editor.setValue
    notices,    \* the Notice texts shown so far, in order
    requests,   \* the requestUrl calls issued so far, in order
    inv,        \* per invocation: the handler, its position and its locals
    preview,    \* the text of the settings tab's preview element
    initial,    \* the document and cursor at Init (history)
    completed,  \* the invocations whose fetch settled successfully, in order
    weather,    \* formatWeather's record argument (SpecFormat)
    result,     \* formatWeather's return value (SpecFormat)
    code,       \* wmoCodeToCondition's argument (SpecWmo)
    cond        \* wmoCodeToCondition's return value, once returned (SpecWmo)

vars == <<settings, doc, cursor, host, notices, requests, inv, preview,
          initial, completed, weather, result, code, cond>>

None == "<none>"
\* JavaScript's undefined: an absent field of a payload
Undefined == "<undefined>"

-----------------------------------------------------------------------------
(* Bounds *)

\* templates of SpecFormat are concatenations of at most MaxPieces pieces
MaxPieces == 3
\* the largest weather code SpecWmo feeds to wmoCodeToCondition
MaxCode == 100
\* the number of overlapping command invocations of SpecOverlap
MaxInvocations == 2

-----------------------------------------------------------------------------
(* JavaScript string primitives *)

\* the least element of a non-empty set of integers
Least(S) == CHOOSE i \in S : \A j \in S : i <= j

Char(s, i) == SubSeq(s, i, i)

\* String.prototype.slice(from, to) with 0-based, in-range arguments
Slice(s, from, to) == SubSeq(s, from + 1, to)

SliceFrom(s, from) == SubSeq(s, from + 1, Len(s))

\* whether p occurs in s at 0-based index i
MatchesAt(s, p, i) == i + Len(p) <= Len(s) /\ SubSeq(s, i + 1, i + Len(p)) = p

StartsWith(s, p) == MatchesAt(s, p, 0)

\* String.prototype.indexOf(p, from): the first 0-based index >= from, or -1
IndexOf(s, p, from) ==
    LET hits == {i \in from..(Len(s) - Len(p)) : MatchesAt(s, p, i)}
    IN  IF hits = {} THEN 0 - 1 ELSE Least(hits)

Includes(s, p) == IndexOf(s, p, 0) >= 0

\* the white space \s and trim() recognise, within the model's alphabet
IsWs(c) == c \in {" ", "\n", "\t"}

\* the first 0-based index >= i of s that holds no white space (Len(s) if none)
SkipWs(s, i) ==
    IF i >= Len(s) THEN i
    ELSE Least({j \in i..Len(s) : j = Len(s) \/ ~IsWs(Char(s, j + 1))})

\* the first 0-based index >= i of s that holds white space (Len(s) if none)
SkipNonWs(s, i) ==
    IF i >= Len(s) THEN i
    ELSE Least({j \in i..Len(s) : j = Len(s) \/ IsWs(Char(s, j + 1))})

\* String.prototype.trim()
Trim(s) ==
    LET first == SkipWs(s, 0)
        ends == {j \in first..Len(s) : \A k \in (j + 1)..Len(s) : IsWs(Char(s, k))}
    IN  IF first >= Len(s) THEN "" ELSE Slice(s, first, Least(ends))

Upper == "ABCDEFGHIJKLMNOPQRSTUVWXYZ"
Lower == "abcdefghijklmnopqrstuvwxyz"

LowerChar(c) ==
    LET at == IndexOf(Upper, c, 0)
    IN  IF at >= 0 THEN Char(Lower, at + 1) ELSE c

\* String.prototype.toLowerCase(), letter by letter (by halves)
RECURSIVE ToLowerCase(_)
ToLowerCase(s) ==
    IF Len(s) = 0 THEN ""
    ELSE IF Len(s) = 1 THEN LowerChar(s)
    ELSE LET half == Len(s) \div 2
         IN  ToLowerCase(SubSeq(s, 1, half)) \o ToLowerCase(SubSeq(s, half + 1, Len(s)))

Digits == "0123456789"

RECURSIVE NatToString(_)
NatToString(n) ==
    IF n < 10 THEN Char(Digits, n + 1)
    ELSE NatToString(n \div 10) \o Char(Digits, (n % 10) + 1)

\* Number -> string of an integer, as a template literal prints it
IntToString(n) == IF n < 0 THEN "-" \o NatToString(0 - n) ELSE NatToString(n)

\* Number -> string of a number held in tenths: 184 is "18.4", 620 is "62"
TenthsToString(t) ==
    LET a == IF t < 0 THEN 0 - t ELSE t
        body == IF a % 10 = 0 THEN NatToString(a \div 10)
                ELSE NatToString(a \div 10) \o "." \o Char(Digits, (a % 10) + 1)
    IN  IF t < 0 THEN "-" \o body ELSE body

\* Math.round(x) printed by a template literal, for a number held in tenths: Math.round rounds half up
RoundText(x) == IntToString((x + 5) \div 10)

\* a string field, or undefined, printed by a template literal
FieldText(x) == IF x = Undefined THEN "undefined" ELSE x

-----------------------------------------------------------------------------
(* Weather condition -> emoji mapping *)

IconClear == "@a"
IconMainlyClear == "@b"
IconPartly == "^"
IconOvercast == "@c"
IconFog == "@d"
IconShowers == "@e"
IconRain == "@f"
IconSnowfall == "@g"
IconSnow == "@h"
IconThunder == "!"
IconThermometer == "@i"

\* the map literal of wmoCodeToCondition, one triple per entry
WmoTable ==
    { <<0, "Clear sky", IconClear>>,
      <<1, "Mainly clear", IconMainlyClear>>,
      <<2, "Partly cloudy", IconPartly>>,
      <<3, "Overcast", IconOvercast>>,
      <<45, "Fog", IconFog>>,
      <<48, "Depositing rime fog", IconFog>>,
      <<51, "Light drizzle", IconShowers>>,
      <<53, "Moderate drizzle", IconShowers>>,
      <<55, "Dense drizzle", IconRain>>,
      <<56, "Light freezing drizzle", IconRain>>,
      <<57, "Dense freezing drizzle", IconRain>>,
      <<61, "Slight rain", IconShowers>>,
      <<63, "Moderate rain", IconRain>>,
      <<65, "Heavy rain", IconRain>>,
      <<66, "Light freezing rain", IconRain>>,
      <<67, "Heavy freezing rain", IconRain>>,
      <<71, "Slight snow", IconSnowfall>>,
      <<73, "Moderate snow", IconSnowfall>>,
      <<75, "Heavy snow", IconSnow>>,
      <<77, "Snow grains", IconSnow>>,
      <<80, "Slight rain showers", IconShowers>>,
      <<81, "Moderate rain showers", IconRain>>,
      <<82, "Violent rain showers", IconRain>>,
      <<85, "Slight snow showers", IconSnowfall>>,
      <<86, "Heavy snow showers", IconSnow>>,
      <<95, "Thunderstorm", IconThunder>>,
      <<96, "Thunderstorm with slight hail", IconThunder>>,
      <<99, "Thunderstorm with heavy hail", IconThunder>> }

\* the keys of the map literal
WmoCodes == {t[1] : t \in WmoTable}

WmoFallback == [text |-> "Unknown", icon |-> IconThermometer]

\* a mutant: a lookup with no default branch, whose missing entry prints as
\* "undefined"
wmoCodeToConditionNoDefault(c) ==
    IF c \in WmoCodes
    THEN LET t == CHOOSE t \in WmoTable : t[1] = c
         IN  [text |-> t[2], icon |-> t[3]]
    ELSE [text |-> "undefined", icon |-> "undefined"]

\* map[code] ?? { text: "Unknown", icon: thermometer }
wmoCodeToCondition(c) ==
    IF c \in WmoCodes
    THEN LET t == CHOOSE t \in WmoTable : t[1] = c
         IN  [text |-> t[2], icon |-> t[3]]
    ELSE WmoFallback

conditionTextToIcon(text) ==
    LET lower == ToLowerCase(text)
    IN  IF Includes(lower, "thunder") THEN IconThunder
        ELSE IF Includes(lower, "snow") \/ Includes(lower, "blizzard") THEN IconSnow
        ELSE IF Includes(lower, "sleet") \/ Includes(lower, "freezing") THEN IconSnowfall
        ELSE IF Includes(lower, "heavy rain") \/ Includes(lower, "downpour") THEN IconRain
        ELSE IF Includes(lower, "rain") \/ Includes(lower, "drizzle") THEN IconShowers
        ELSE IF Includes(lower, "fog") \/ Includes(lower, "mist") THEN IconFog
        ELSE IF Includes(lower, "overcast") THEN IconOvercast
        ELSE IF Includes(lower, "partly") \/ Includes(lower, "cloudy") THEN IconPartly
        ELSE IF Includes(lower, "clear") \/ Includes(lower, "sunny") THEN IconClear
        ELSE IconThermometer

-----------------------------------------------------------------------------
(* Format the weather line *)

\* GetSubstitution of String.prototype.replace for a pattern with no capture
\* groups: "$$" is "$", "$&" the match, "$'" the text after the match; any
\* other character, a "$" before a digit included, stands for itself.  ("$"
\* before a grave accent is the text before the match; the model's alphabet
\* holds no grave accent, so that case never arises and before is not read.)
RECURSIVE GetSubstitution(_, _, _, _)
GetSubstitution(rep, matched, before, after) ==
    IF rep = "" THEN ""
    ELSE IF Len(rep) >= 2 /\ Char(rep, 1) = "$" /\ Char(rep, 2) \in {"$", "&", "'"}
    THEN (CASE Char(rep, 2) = "$" -> "$"
            [] Char(rep, 2) = "&" -> matched
            [] Char(rep, 2) = "'" -> after)
         \o GetSubstitution(SubSeq(rep, 3, Len(rep)), matched, before, after)
    ELSE Char(rep, 1) \o GetSubstitution(SubSeq(rep, 2, Len(rep)), matched, before, after)

\* the rest of s.replace(/tok/g, rep) from 0-based index i on: the text up to
\* the next match is kept, the match is substituted, and the scan goes on
\* after the match
RECURSIVE ReplaceFrom(_, _, _, _)
ReplaceFrom(s, tok, rep, i) ==
    LET at == IndexOf(s, tok, i)
    IN  IF at < 0 THEN SliceFrom(s, i)
        ELSE Slice(s, i, at)
             \o GetSubstitution(rep, tok, Slice(s, 0, at), SliceFrom(s, at + Len(tok)))
             \o ReplaceFrom(s, tok, rep, at + Len(tok))

\* s.replace(/tok/g, rep) for a pattern that is a literal text
ReplaceAll(s, tok, rep) == ReplaceFrom(s, tok, rep, 0)

\* /\s*\|\s*<label>\s*\S+/ tried at 0-based index i: the index after the match,
\* or -1.  The classes \s, "|", the label's first letter and \S never overlap
\* where they meet, so the greedy match is the only match.
MatchLabelAt(s, label, i) ==
    LET bar == SkipWs(s, i)
        lab == SkipWs(s, bar + 1)
        val == SkipWs(s, lab + Len(label))
    IN  IF /\ MatchesAt(s, "|", bar)
           /\ MatchesAt(s, label, lab)
           /\ val < Len(s)
        THEN SkipNonWs(s, val)
        ELSE 0 - 1

\* /\s*\|\s*Wind:\s*\S+\s*\S*/ tried at index i: the index after the match, or -1
MatchWindAt(s, i) ==
    LET first == MatchLabelAt(s, "Wind:", i)
    IN  IF first < 0 THEN first ELSE SkipNonWs(s, SkipWs(s, first))

\* /\s*\|\s*Humidity:\s*\S+/ tried at index i: the index after the match, or -1
MatchHumidityAt(s, i) == MatchLabelAt(s, "Humidity:", i)

\* result.replace(/\s*\|\s*Wind:\s*\S+\s*\S*/g, "") from index i on
RECURSIVE StripWindFrom(_, _)
StripWindFrom(s, i) ==
    LET starts == {j \in i..(Len(s) - 1) : MatchWindAt(s, j) >= 0}
    IN  IF starts = {} THEN SliceFrom(s, i)
        ELSE Slice(s, i, Least(starts)) \o StripWindFrom(s, MatchWindAt(s, Least(starts)))

\* result.replace(/\s*\|\s*Humidity:\s*\S+/g, "") from index i on
RECURSIVE StripHumidityFrom(_, _)
StripHumidityFrom(s, i) ==
    LET starts == {j \in i..(Len(s) - 1) : MatchHumidityAt(s, j) >= 0}
    IN  IF starts = {} THEN SliceFrom(s, i)
        ELSE Slice(s, i, Least(starts))
             \o StripHumidityFrom(s, MatchHumidityAt(s, Least(starts)))

TokIcon == "{icon}"
TokTemp == "{temp}"
TokConditions == "{conditions}"
TokWind == "{wind}"
TokHumidity == "{humidity}"
TokFeelsLike == "{feelsLike}"
TokLocation == "{location}"

\* the chain of seven replace calls
ReplaceTokens(w, format) ==
    LET r1 == ReplaceAll(format, TokIcon, w.icon)
        r2 == ReplaceAll(r1, TokTemp, w.temp)
        r3 == ReplaceAll(r2, TokConditions, w.conditions)
        r4 == ReplaceAll(r3, TokWind, w.wind)
        r5 == ReplaceAll(r4, TokHumidity, w.humidity)
        r6 == ReplaceAll(r5, TokFeelsLike, w.feelsLike)
    IN  ReplaceAll(r6, TokLocation, w.location)

\* if (!settings.showWind) result = result.replace(<wind segment>, "")
StripWind(r, s) == IF ~s.showWind THEN StripWindFrom(r, 0) ELSE r

\* if (!settings.showHumidity) result = result.replace(<humidity segment>, "")
StripHumidity(r, s) == IF ~s.showHumidity THEN StripHumidityFrom(r, 0) ELSE r

\* a mutant: the result is returned without the final trim()
formatWeatherNoTrim(w, format, s) ==
    StripHumidity(StripWind(ReplaceTokens(w, format), s), s)

formatWeather(w, format, s) ==
    Trim(StripHumidity(StripWind(ReplaceTokens(w, format), s), s))

-----------------------------------------------------------------------------
(* Settings *)

Units == {"metric", "imperial"}
Providers == {"wttr", "openmeteo"}

DefaultFormat == "{icon} {temp}, {conditions} | Wind: {wind}"

DEFAULT_SETTINGS ==
    [ location |-> "", units |-> "imperial", format |-> DefaultFormat,
      apiProvider |-> "openmeteo", showWind |-> TRUE, showHumidity |-> FALSE ]

\* a template that uses each of the seven tokens once (the README's third
\* example format, completed)
AllTokensFormat ==
    "{location}: {icon} {temp} ({feelsLike}), {conditions} | Wind: {wind} | Humidity: {humidity}"

\* a template of two lines, as the settings tab's text area accepts
TwoLineFormat == "{temp}, {conditions}\n{wind}"

-----------------------------------------------------------------------------
(* formatWeather on its own: SpecFormat *)

Pieces ==
    { "{temp}", "{wind}", " ", "| ", "Wind: 5 mph", "Humidity: 45%",
      "at {unknown}", "x" }

RECURSIVE PieceTemplates(_)
PieceTemplates(n) ==
    IF n = 0 THEN {""}
    ELSE LET shorter == PieceTemplates(n - 1)
         IN  shorter \cup {t \o p : t \in shorter, p \in Pieces}

Formats ==
    PieceTemplates(MaxPieces) \cup {DefaultFormat, AllTokensFormat, TwoLineFormat}

\* the record of the specification's end-to-end scenario 1
LondonRecord ==
    [ temp |-> "18*C", conditions |-> "Partly cloudy", icon |-> IconPartly,
      wind |-> "12 km/h", humidity |-> "62%", feelsLike |-> "18*C",
      location |-> "London, England" ]

\* records whose free-text fields (wttr's description and place name) hold
\* text that means something to replace()
Records ==
    { LondonRecord,
      [LondonRecord EXCEPT !.location = "$&"],
      [LondonRecord EXCEPT !.conditions = "{wind} at sea"] }

\* the plugin's own variables, at rest
PluginIdle ==
    /\ doc = ""
    /\ cursor = [line |-> 0, ch |-> 0]
    /\ host = "start"
    /\ notices = <<>>
    /\ requests = <<>>
    /\ inv = <<>>
    /\ preview = ""
    /\ initial = [doc |-> "", cursor |-> [line |-> 0, ch |-> 0]]
    /\ completed = <<>>

InitFormat ==
    /\ settings \in { [DEFAULT_SETTINGS EXCEPT !.format = f, !.showWind = sw,
                                               !.showHumidity = sh] :
                        f \in Formats, sw \in BOOLEAN, sh \in BOOLEAN }
    /\ weather \in Records
    /\ result = None
    /\ code = 0
    /\ cond = <<>>
    /\ PluginIdle

Format ==
    /\ result = None
    /\ result' = formatWeather(weather, settings.format, settings)
    /\ UNCHANGED <<settings, doc, cursor, host, notices, requests, inv, preview,
                   initial, completed, weather, code, cond>>

NextFormat == Format

SpecFormat == InitFormat /\ [][NextFormat]_vars

-----------------------------------------------------------------------------
(* wmoCodeToCondition on its own: SpecWmo *)

\* the weather codes tried: every table code and the integers around them
CodeInputs == (0 - 1)..MaxCode

InitWmo ==
    /\ code \in CodeInputs
    /\ cond = <<>>
    /\ settings = DEFAULT_SETTINGS
    /\ weather = LondonRecord
    /\ result = None
    /\ PluginIdle

Lookup ==
    /\ cond = <<>>
    /\ cond' = <<wmoCodeToCondition(code)>>
    /\ UNCHANGED <<settings, doc, cursor, host, notices, requests, inv, preview,
                   initial, completed, weather, result, code>>

NextWmo == Lookup

SpecWmo == InitWmo /\ [][NextWmo]_vars

-----------------------------------------------------------------------------
(* Network: URLs, payloads and the two providers *)

\* the characters encodeURIComponent escapes, of those a location of the
\* model can hold, with their escapes
UriEscapes ==
    { <<" ", "%20">>, <<",", "%2C">>, <<"\"", "%22">>, <<"$", "%24">>, <<"&", "%26">> }

EncodeChar(c) ==
    IF \E e \in UriEscapes : e[1] = c
    THEN (CHOOSE e \in UriEscapes : e[1] = c)[2]
    ELSE c

\* encodeURIComponent, character by character (by halves)
RECURSIVE encodeURIComponent(_)
encodeURIComponent(s) ==
    IF Len(s) = 0 THEN ""
    ELSE IF Len(s) = 1 THEN EncodeChar(s)
    ELSE LET half == Len(s) \div 2
         IN  encodeURIComponent(SubSeq(s, 1, half))
             \o encodeURIComponent(SubSeq(s, half + 1, Len(s)))

GeocodeUrl(location) ==
    "https://geocoding-api.open-meteo.com/v1/search?name="
    \o encodeURIComponent(location) \o "&count=1&language=en&format=json"

ForecastUrl(geo, units) ==
    "https://api.open-meteo.com/v1/forecast?latitude=" \o TenthsToString(geo.latitude)
    \o "&longitude=" \o TenthsToString(geo.longitude)
    \o "&current=temperature_2m,relative_humidity_2m,apparent_temperature,weather_code,wind_speed_10m"
    \o "&temperature_unit=" \o (IF units = "metric" THEN "celsius" ELSE "fahrenheit")
    \o "&wind_speed_unit=" \o (IF units = "metric" THEN "kmh" ELSE "mph")
    \o "&forecast_days=1"

WttrUrl(location, units) ==
    "https://wttr.in/" \o encodeURIComponent(location) \o "?format=j1&"
    \o (IF units = "metric" THEN "m" ELSE "u")

\* the message of fetchWeather's error
ConfigMessage ==
    "No location set. Open Settings > Weather Insert to configure your location."

\* the message of geocode's error
NotFoundMessage(location) ==
    "Location \"" \o location
    \o "\" not found. Try a city name like \"New York\" or \"London\"."

\* the message of fetchWttr's error
WttrParseMessage == "Could not parse weather data from wttr.in"

\* the message of the error requestUrl rejects with (the host's text)
TransportMessage == "net::ERR_INTERNET_DISCONNECTED"

\* the message of the TypeError current.weather_code raises on an absent current
NoCurrentMessage == "Cannot read properties of undefined (reading 'weather_code')"

\* the message of the TypeError r.latitude raises on an absent r
NoResultMessage == "Cannot read properties of undefined (reading 'latitude')"

NoGeo ==
    [ latitude |-> 0, longitude |-> 0, name |-> "", country |-> "", admin1 |-> Undefined ]

NoWeather ==
    [ temp |-> "", conditions |-> "", icon |-> "", wind |-> "", humidity |-> "",
      feelsLike |-> "", location |-> "" ]

\* the outcome of an awaited call: a value or a thrown error's message
Returned(w) == [ok |-> TRUE, weather |-> w, geo |-> NoGeo, err |-> ""]
Resolved(g) == [ok |-> TRUE, weather |-> NoWeather, geo |-> g, err |-> ""]
Thrown(msg) == [ok |-> FALSE, weather |-> NoWeather, geo |-> NoGeo, err |-> msg]

London ==
    [ latitude |-> 515, longitude |-> 0 - 1, name |-> "London",
      country |-> "United Kingdom", admin1 |-> "England" ]

Oslo ==
    [ latitude |-> 599, longitude |-> 108, name |-> "Oslo",
      country |-> "Norway", admin1 |-> Undefined ]

\* what the geocoding request can come back with: a transport failure, a body
\* without results, with an empty results array, or with one result
GeoResponses ==
    { [transport |-> "fail", hasResults |-> FALSE, results |-> <<>>],
      [transport |-> "ok", hasResults |-> FALSE, results |-> <<>>],
      [transport |-> "ok", hasResults |-> TRUE, results |-> <<>>],
      [transport |-> "ok", hasResults |-> TRUE, results |-> <<London>>],
      [transport |-> "ok", hasResults |-> TRUE, results |-> <<Oslo>>] }

\* the current object of scenario 1, and one with a negative half, a code
\* outside the table and calm air
MildCurrent ==
    [ temperature_2m |-> 184, relative_humidity_2m |-> 620,
      apparent_temperature |-> 179, weather_code |-> 2, wind_speed_10m |-> 117 ]

ColdCurrent ==
    [ temperature_2m |-> 0 - 25, relative_humidity_2m |-> 905,
      apparent_temperature |-> 0 - 71, weather_code |-> 4, wind_speed_10m |-> 4 ]

\* what the forecast request can come back with
ForecastResponses ==
    { [transport |-> "fail", hasCurrent |-> FALSE, current |-> MildCurrent],
      [transport |-> "ok", hasCurrent |-> FALSE, current |-> MildCurrent],
      [transport |-> "ok", hasCurrent |-> TRUE, current |-> MildCurrent],
      [transport |-> "ok", hasCurrent |-> TRUE, current |-> ColdCurrent] }

FullCondition ==
    [ temp_C |-> "18", temp_F |-> "64", FeelsLikeC |-> "17", FeelsLikeF |-> "63",
      windspeedKmph |-> "12", windspeedMiles |-> "7", humidity |-> "62",
      weatherDesc |-> "Light rain shower" ]

\* a current_condition entry without its Fahrenheit and miles fields, and
\* without a description
MetricOnlyCondition ==
    [ temp_C |-> "18", temp_F |-> Undefined, FeelsLikeC |-> "17",
      FeelsLikeF |-> Undefined, windspeedKmph |-> "12",
      windspeedMiles |-> Undefined, humidity |-> "62", weatherDesc |-> Undefined ]

NoWttrResponse ==
    [ transport |-> "none", hasCurrent |-> FALSE, current |-> FullCondition,
      areaName |-> Undefined, region |-> Undefined ]

\* what the wttr.in request can come back with
WttrResponses ==
    { [NoWttrResponse EXCEPT !.transport = "fail"],
      [NoWttrResponse EXCEPT !.transport = "ok"],
      [ transport |-> "ok", hasCurrent |-> TRUE, current |-> FullCondition,
        areaName |-> "London", region |-> "City of London" ],
      [ transport |-> "ok", hasCurrent |-> TRUE, current |-> MetricOnlyCondition,
        areaName |-> Undefined, region |-> Undefined ] }

\* a mutant: only the absence of results is checked, not their number, so an
\* empty array reaches r.latitude
geocodeNoLengthCheck(location, resp) ==
    IF resp.transport = "fail" THEN Thrown(TransportMessage)
    ELSE IF ~resp.hasResults THEN Thrown(NotFoundMessage(location))
    ELSE IF Len(resp.results) = 0 THEN Thrown(NoResultMessage)
    ELSE Resolved(resp.results[1])

\* geocode, from the response of its request on
geocode(location, resp) ==
    IF resp.transport = "fail" THEN Thrown(TransportMessage)
    ELSE IF ~resp.hasResults \/ Len(resp.results) = 0
    THEN Thrown(NotFoundMessage(location))
    ELSE Resolved(resp.results[1])

\* fetchOpenMeteo, from the response of its forecast request on
fetchOpenMeteo(geo, units, resp) ==
    IF resp.transport = "fail" THEN Thrown(TransportMessage)
    ELSE IF ~resp.hasCurrent THEN Thrown(NoCurrentMessage)
    ELSE LET current == resp.current
             c == wmoCodeToCondition(current.weather_code)
             tempSymbol == IF units = "metric" THEN "*C" ELSE "*F"
             windLabel == IF units = "metric" THEN "km/h" ELSE "mph"
             locationLabel == IF geo.admin1 # Undefined /\ geo.admin1 # ""
                              THEN geo.name \o ", " \o geo.admin1
                              ELSE geo.name \o ", " \o geo.country
         IN  Returned([ temp |-> RoundText(current.temperature_2m) \o tempSymbol,
                        conditions |-> c.text,
                        icon |-> c.icon,
                        wind |-> RoundText(current.wind_speed_10m) \o " " \o windLabel,
                        humidity |-> TenthsToString(current.relative_humidity_2m) \o "%",
                        feelsLike |-> RoundText(current.apparent_temperature) \o tempSymbol,
                        location |-> locationLabel ])

\* fetchWttr, from the response of its request on
fetchWttr(location, units, resp) ==
    IF resp.transport = "fail" THEN Thrown(TransportMessage)
    ELSE IF ~resp.hasCurrent THEN Thrown(WttrParseMessage)
    ELSE LET current == resp.current
             tempSymbol == IF units = "metric" THEN "*C" ELSE "*F"
             temp == IF units = "metric" THEN current.temp_C ELSE current.temp_F
             feelsLike == IF units = "metric" THEN current.FeelsLikeC
                          ELSE current.FeelsLikeF
             windSpeed == IF units = "metric" THEN current.windspeedKmph
                          ELSE current.windspeedMiles
             windLabel == IF units = "metric" THEN "km/h" ELSE "mph"
             conditions == IF current.weatherDesc = Undefined THEN "Unknown"
                           ELSE current.weatherDesc
             locName == IF resp.areaName = Undefined THEN location ELSE resp.areaName
             locRegion == IF resp.region = Undefined THEN "" ELSE resp.region
         IN  Returned([ temp |-> FieldText(temp) \o tempSymbol,
                        conditions |-> conditions,
                        icon |-> conditionTextToIcon(conditions),
                        wind |-> FieldText(windSpeed) \o " " \o windLabel,
                        humidity |-> FieldText(current.humidity) \o "%",
                        feelsLike |-> FieldText(feelsLike) \o tempSymbol,
                        location |-> IF locRegion # "" THEN locName \o ", " \o locRegion
                                     ELSE locName ])

-----------------------------------------------------------------------------
(* The editor (the host's Editor, as the plugin uses it) *)

\* the 0-based offsets at which the lines of d start
LineStarts(d) == {0} \cup {i \in 1..Len(d) : Char(d, i) = "\n"}

LineCount(d) == Cardinality(LineStarts(d))

LineStart(d, line) ==
    CHOOSE st \in LineStarts(d) : Cardinality({x \in LineStarts(d) : x < st}) = line

LineLength(d, line) ==
    LET st == LineStart(d, line)
        later == {x \in LineStarts(d) : x > st}
    IN  IF later = {} THEN Len(d) - st ELSE Least(later) - 1 - st

Clamp(x, lo, hi) == IF x < lo THEN lo ELSE IF x > hi THEN hi ELSE x

\* Editor.posToOffset: a position outside the document is clipped into it
posToOffset(d, pos) ==
    LET line == Clamp(pos.line, 0, LineCount(d) - 1)
    IN  LineStart(d, line) + Clamp(pos.ch, 0, LineLength(d, line))

\* Editor.offsetToPos
offsetToPos(d, off) ==
    LET st == CHOOSE x \in LineStarts(d) :
                  x <= off /\ \A y \in LineStarts(d) : y <= off => y <= x
    IN  [line |-> Cardinality({x \in LineStarts(d) : x < st}), ch |-> off - st]

\* Editor.replaceRange(text, pos): text is inserted at pos
replaceRange(d, text, pos) ==
    Slice(d, 0, posToOffset(d, pos)) \o text \o SliceFrom(d, posToOffset(d, pos))

\* Editor.setCursor(pos): the cursor the editor then reports
setCursor(d, pos) == offsetToPos(d, posToOffset(d, pos))

\* Editor.setValue(d): the cursor the editor then reports; the host maps it to
\* one end of the replaced text
cursorAfterSetValue(d, mode) ==
    IF mode = "start" THEN [line |-> 0, ch |-> 0] ELSE offsetToPos(d, Len(d))

-----------------------------------------------------------------------------
(* The commands' bodies *)

NoticeFetching == "Fetching weather_"
NoticeInserted == "Weather inserted +"
NoticeFrontmatter == "Weather added to frontmatter +"

\* what both catch blocks show
ErrorNotice(msg) == "Weather error: " \o msg

\* the editor after replaceRange(line, cursor) and setCursor({line:
\* cursor.line, ch: cursor.ch + line.length}), with the notice to show
InsertLine(ed, line, notice) ==
    [ doc |-> replaceRange(ed.doc, line, ed.cursor),
      cursor |-> setCursor(replaceRange(ed.doc, line, ed.cursor),
                           [line |-> ed.cursor.line, ch |-> ed.cursor.ch + Len(line)]),
      notice |-> notice ]

\* a mutant: insertWeather's catch block is entered only after the line has
\* been rendered from the missing record and put into the document
insertWeatherNoGuard(ed, outcome, s) ==
    InsertLine(ed, formatWeather(outcome.weather, s.format, s),
               IF outcome.ok THEN NoticeInserted ELSE ErrorNotice(outcome.err))

\* insertWeather from the settling of its fetch on: the editor it leaves and
\* the notice it shows
insertWeather(ed, outcome, s) ==
    IF ~outcome.ok
    THEN [doc |-> ed.doc, cursor |-> ed.cursor, notice |-> ErrorNotice(outcome.err)]
    ELSE InsertLine(ed, formatWeather(outcome.weather, s.format, s), NoticeInserted)

\* the six lines of insertWeatherFrontmatter, joined
fmFields(w) ==
    "weather_temp: \"" \o w.temp \o "\"\n"
    \o "weather_conditions: \"" \o w.conditions \o "\"\n"
    \o "weather_icon: \"" \o w.icon \o "\"\n"
    \o "weather_wind: \"" \o w.wind \o "\"\n"
    \o "weather_humidity: \"" \o w.humidity \o "\"\n"
    \o "weather_location: \"" \o w.location \o "\""

\* insertWeatherFrontmatter from the settling of its fetch on
insertWeatherFrontmatter(ed, outcome, mode) ==
    IF ~outcome.ok
    THEN [doc |-> ed.doc, cursor |-> ed.cursor, notice |-> ErrorNotice(outcome.err)]
    ELSE LET content == ed.doc
             closingIdx == IndexOf(content, "---", 3)
             d == IF StartsWith(content, "---")
                  THEN Slice(content, 0, closingIdx) \o fmFields(outcome.weather)
                       \o "\n" \o SliceFrom(content, closingIdx)
                  ELSE "---\n" \o fmFields(outcome.weather) \o "\n---\n\n" \o content
         IN  IF StartsWith(content, "---") /\ closingIdx = 0 - 1
             THEN [doc |-> ed.doc, cursor |-> ed.cursor, notice |-> NoticeFrontmatter]
             ELSE [ doc |-> d, cursor |-> cursorAfterSetValue(d, mode),
                    notice |-> NoticeFrontmatter ]

\* the preview handler from the settling of its fetch on: the preview's text
previewText(outcome, s) ==
    IF outcome.ok THEN formatWeather(outcome.weather, s.format, s)
    ELSE "Error: " \o outcome.err

-----------------------------------------------------------------------------
(* The plugin: Spec (one invocation) and SpecOverlap (overlapping ones) *)

Commands == {"insertWeather", "insertWeatherFrontmatter"}

\* the invocations a behaviour can hold; DOMAIN inv are those it does hold
Slots == 1..MaxInvocations

IdleInvocation ==
    [ op |-> "none", pc |-> "idle", geoResp |-> "none", wttrResp |-> NoWttrResponse,
      outcome |-> Thrown(""), at |-> [doc |-> "", cursor |-> [line |-> 0, ch |-> 0]] ]

Locations == {"", "San Jose"}

Docs ==
    { "",
      "Dear diary\nrain",
      "---\ntitle: day\n---\nbody",
      "---\ntitle: day\nbody" }

\* the cursors tried: at the start, in the middle and at the end of the document
Cursors(d) == {offsetToPos(d, o) : o \in {0, Len(d) \div 2, Len(d)}}

InitEditor ==
    /\ doc \in Docs
    /\ host \in {"start", "end"}
    /\ notices = <<>>
    /\ requests = <<>>
    /\ preview = ""
    /\ completed = <<>>
    /\ weather = LondonRecord
    /\ result = None
    /\ code = 0
    /\ cond = <<>>

\* the settings loadSettings can leave
Init ==
    /\ settings \in [ location : Locations, units : Units,
                      format : {DefaultFormat, TwoLineFormat},
                      apiProvider : Providers, showWind : BOOLEAN,
                      showHumidity : {FALSE} ]
    /\ inv = <<IdleInvocation>>
    /\ InitEditor
    /\ cursor \in Cursors(doc)
    /\ initial = [doc |-> doc, cursor |-> cursor]

InitOverlap ==
    /\ settings \in [ location : {"San Jose"}, units : {"metric"},
                      format : {DefaultFormat},
                      apiProvider : Providers, showWind : {TRUE},
                      showHumidity : {FALSE} ]
    /\ inv = [p \in 1..MaxInvocations |-> IdleInvocation]
    /\ InitEditor
    /\ cursor = offsetToPos(doc, Len(doc))
    /\ initial = [doc |-> doc, cursor |-> cursor]

\* no continuation is waiting to run: a task (a command, a click, a response)
\* starts only when the microtasks of the task before it have all run
NoMicrotask == \A p \in DOMAIN inv : inv[p].pc # "settled"

Rest == <<settings, host, initial, weather, result, code, cond>>

\* the fetch a handler starts: fetchWeather's check of the location when
\* guarded, then the provider's first request
BeginFetch(p, op, guarded) ==
    IF guarded /\ settings.location = ""
    THEN /\ inv' = [inv EXCEPT ![p].op = op, ![p].pc = "settled",
                               ![p].outcome = Thrown(ConfigMessage)]
         /\ UNCHANGED requests
    ELSE IF settings.apiProvider = "wttr"
    THEN /\ inv' = [inv EXCEPT ![p].op = op, ![p].pc = "wttr"]
         /\ requests' = Append(requests,
                [kind |-> "wttr", by |-> p, url |-> WttrUrl(settings.location, settings.units)])
    ELSE /\ inv' = [inv EXCEPT ![p].op = op, ![p].pc = "geocode"]
         /\ requests' = Append(requests,
                [kind |-> "geocode", by |-> p, url |-> GeocodeUrl(settings.location)])

\* the command "Insert current weather" up to its await
InsertWeatherStart(p) ==
    /\ p \in DOMAIN inv
    /\ NoMicrotask
    /\ inv[p].pc = "idle"
    /\ notices' = Append(notices, NoticeFetching)
    /\ BeginFetch(p, "insertWeather", TRUE)
    /\ UNCHANGED <<doc, cursor, preview, completed>>
    /\ UNCHANGED Rest

\* the command "Insert weather into frontmatter" up to its await
InsertWeatherFrontmatterStart(p) ==
    /\ p \in DOMAIN inv
    /\ NoMicrotask
    /\ inv[p].pc = "idle"
    /\ notices' = Append(notices, NoticeFetching)
    /\ BeginFetch(p, "insertWeatherFrontmatter", TRUE)
    /\ UNCHANGED <<doc, cursor, preview, completed>>
    /\ UNCHANGED Rest

\* the click on "Fetch preview" up to its await
PreviewClick(p) ==
    /\ p \in DOMAIN inv
    /\ NoMicrotask
    /\ inv[p].pc = "idle"
    /\ preview' = "Fetching_"
    /\ BeginFetch(p, "preview", FALSE)
    /\ UNCHANGED <<doc, cursor, notices, completed>>
    /\ UNCHANGED Rest

\* the fetch of p settles with outcome o: its handler's continuation is ready
Settle(p, o) ==
    /\ inv' = [inv EXCEPT ![p].pc = "settled", ![p].outcome = o]
    /\ completed' = IF o.ok /\ inv[p].op \in Commands THEN Append(completed, p)
                    ELSE completed

\* the fetch of p settles after the response resp of wttr.in
SettleWttr(p, o, resp) ==
    /\ inv' = [inv EXCEPT ![p].pc = "settled", ![p].outcome = o, ![p].wttrResp = resp]
    /\ completed' = IF o.ok /\ inv[p].op \in Commands THEN Append(completed, p)
                    ELSE completed

\* the shape of a geocoding response
GeoShape(resp) ==
    IF resp.transport = "fail" THEN "fail"
    ELSE IF ~resp.hasResults THEN "missing"
    ELSE IF resp.results = <<>> THEN "empty" ELSE "found"

\* geocode has ended with g after a response of shape shape
AfterGeocode(p, g, shape) ==
    IF g.ok
    THEN /\ inv' = [inv EXCEPT ![p].pc = "forecast", ![p].geoResp = shape,
                               ![p].outcome = g]
         /\ requests' = Append(requests,
                [kind |-> "forecast", by |-> p,
                 url |-> ForecastUrl(g.geo, settings.units)])
         /\ UNCHANGED completed
    ELSE /\ inv' = [inv EXCEPT ![p].pc = "settled", ![p].geoResp = shape,
                               ![p].outcome = g]
         /\ completed' = completed
         /\ UNCHANGED requests

\* a command's continuation leaves the editor and shows the notice of after
Leave(p, after) ==
    /\ doc' = after.doc
    /\ cursor' = after.cursor
    /\ notices' = Append(notices, after.notice)
    /\ inv' = [inv EXCEPT ![p].pc = "done",
                          ![p].at = [doc |-> doc, cursor |-> cursor]]

\* the geocoding request returns: geocode ends, and fetchOpenMeteo goes on to
\* its forecast request or ends with geocode's error
GeocodeResponse(p) ==
    /\ p \in DOMAIN inv
    /\ NoMicrotask
    /\ inv[p].pc = "geocode"
    /\ \E resp \in GeoResponses :
        AfterGeocode(p, geocode(settings.location, resp), GeoShape(resp))
    /\ UNCHANGED <<doc, cursor, notices, preview>>
    /\ UNCHANGED Rest

\* the forecast request returns: fetchOpenMeteo ends
ForecastResponse(p) ==
    /\ p \in DOMAIN inv
    /\ NoMicrotask
    /\ inv[p].pc = "forecast"
    /\ \E resp \in ForecastResponses :
        Settle(p, fetchOpenMeteo(inv[p].outcome.geo, settings.units, resp))
    /\ UNCHANGED <<doc, cursor, notices, preview, requests>>
    /\ UNCHANGED Rest

\* the wttr.in request returns: fetchWttr ends
WttrResponse(p) ==
    /\ p \in DOMAIN inv
    /\ NoMicrotask
    /\ inv[p].pc = "wttr"
    /\ \E resp \in WttrResponses :
        SettleWttr(p, fetchWttr(settings.location, settings.units, resp), resp)
    /\ UNCHANGED <<doc, cursor, notices, preview, requests>>
    /\ UNCHANGED Rest

\* insertWeather after its await: the rest of the try block, or the catch
InsertWeatherContinue(p) ==
    /\ p \in DOMAIN inv
    /\ inv[p].pc = "settled"
    /\ inv[p].op = "insertWeather"
    /\ Leave(p, insertWeather([doc |-> doc, cursor |-> cursor],
                              inv[p].outcome, settings))
    /\ UNCHANGED <<preview, requests, completed>>
    /\ UNCHANGED Rest

\* insertWeatherFrontmatter after its await
InsertWeatherFrontmatterContinue(p) ==
    /\ p \in DOMAIN inv
    /\ inv[p].pc = "settled"
    /\ inv[p].op = "insertWeatherFrontmatter"
    /\ Leave(p, insertWeatherFrontmatter([doc |-> doc, cursor |-> cursor],
                                         inv[p].outcome, host))
    /\ UNCHANGED <<preview, requests, completed>>
    /\ UNCHANGED Rest

\* the preview handler after its await
PreviewContinue(p) ==
    /\ p \in DOMAIN inv
    /\ inv[p].pc = "settled"
    /\ inv[p].op = "preview"
    /\ preview' = previewText(inv[p].outcome, settings)
    /\ inv' = [inv EXCEPT ![p].pc = "done",
                          ![p].at = [doc |-> doc, cursor |-> cursor]]
    /\ UNCHANGED <<doc, cursor, notices, requests, completed>>
    /\ UNCHANGED Rest

Next ==
    \/ \E p \in Slots : InsertWeatherStart(p)
    \/ \E p \in Slots : InsertWeatherFrontmatterStart(p)
    \/ \E p \in Slots : PreviewClick(p)
    \/ \E p \in Slots : GeocodeResponse(p)
    \/ \E p \in Slots : ForecastResponse(p)
    \/ \E p \in Slots : WttrResponse(p)
    \/ \E p \in Slots : InsertWeatherContinue(p)
    \/ \E p \in Slots : InsertWeatherFrontmatterContinue(p)
    \/ \E p \in Slots : PreviewContinue(p)

Spec == Init /\ [][Next]_vars

SpecOverlap == InitOverlap /\ [][Next]_vars

-----------------------------------------------------------------------------
(* Claims about the plugin (Spec, SpecOverlap) *)

Shown(text) == \E i \in 1..Len(notices) : notices[i] = text

SuccessShown == Shown("Weather inserted +") \/ Shown("Weather added to frontmatter +")

ErrorShown == \E i \in 1..Len(notices) : StartsWith(notices[i], "Weather error: ")

RequestsBy(p) == {i \in 1..Len(requests) : requests[i].by = p}

Finished(p) == inv[p].pc = "done"

\* C1: with an empty location, insertWeather, insertWeatherFrontmatter and the
\* preview handler end with an error and no network request is ever issued.
C1_EmptyLocationNoRequest ==
    settings.location = "" =>
        /\ requests = <<>>
        /\ \A p \in DOMAIN inv : Finished(p) => ~inv[p].outcome.ok

\* C2: when the fetch of insertWeather or insertWeatherFrontmatter fails, the
\* document and the cursor are those from before the command, an error notice
\* with the failure's message is shown, and no success notice is shown.
C2_FailureLeavesDocument ==
    \A p \in DOMAIN inv :
        (inv[p].op \in Commands /\ Finished(p) /\ ~inv[p].outcome.ok) =>
            /\ doc = initial.doc
            /\ cursor = initial.cursor
            /\ Shown("Weather error: " \o inv[p].outcome.err)
            /\ ~SuccessShown

\* a command has ended after a geocoding response with no result, on a
\* document that is not empty
C2_Witness ==
    \E p \in DOMAIN inv :
        /\ inv[p].op \in Commands
        /\ Finished(p)
        /\ ~inv[p].outcome.ok
        /\ inv[p].geoResp = "empty"
        /\ doc # ""

\* C3: with wttr and imperial units, a response whose current_condition entry
\* lacks temp_F, FeelsLikeF and windspeedMiles makes the fetch fail: no record,
\* no change of the document, an error notice.
C3_MissingImperialFieldsFail ==
    \A p \in DOMAIN inv :
        (/\ inv[p].op \in Commands
         /\ Finished(p)
         /\ settings.units = "imperial"
         /\ inv[p].wttrResp.transport = "ok"
         /\ inv[p].wttrResp.hasCurrent
         /\ inv[p].wttrResp.current.temp_F = Undefined
         /\ inv[p].wttrResp.current.FeelsLikeF = Undefined
         /\ inv[p].wttrResp.current.windspeedMiles = Undefined)
        => /\ ~inv[p].outcome.ok
           /\ doc = initial.doc
           /\ ErrorShown

\* the six lines of the README's frontmatter block for record w
FrontmatterBlock(w) ==
    LET lines == << <<"weather_temp", w.temp>>, <<"weather_conditions", w.conditions>>,
                    <<"weather_icon", w.icon>>, <<"weather_wind", w.wind>>,
                    <<"weather_humidity", w.humidity>>,
                    <<"weather_location", w.location>> >>
        L(i) == lines[i][1] \o ": \"" \o lines[i][2] \o "\""
    IN  L(1) \o "\n" \o L(2) \o "\n" \o L(3) \o "\n" \o L(4) \o "\n" \o L(5) \o "\n" \o L(6)

\* d starts with a frontmatter section that holds block right before its
\* closing "---", and the rest of d is orig, all of it
HoldsFrontmatter(d, orig, block) ==
    /\ StartsWith(d, "---")
    /\ \E k \in 3..Len(d) :
        /\ MatchesAt(d, block \o "\n---", k)
        /\ \/ Slice(d, 0, k) \o SliceFrom(d, k + Len(block) + 1) = orig
           \/ /\ Slice(d, 0, k) = "---\n"
              /\ SliceFrom(d, k + Len(block) + 1) = "---\n\n" \o orig

\* C4: whenever insertWeatherFrontmatter reports success, the document starts
\* with a frontmatter section that holds the six quoted lines, in order, before
\* its closing "---", around all of the original content, whatever the document
\* held before.
C4_SuccessMeansFrontmatter ==
    \A p \in DOMAIN inv :
        (/\ inv[p].op = "insertWeatherFrontmatter"
         /\ Finished(p)
         /\ inv[p].outcome.ok
         /\ Shown("Weather added to frontmatter +"))
        => HoldsFrontmatter(doc, inv[p].at.doc, FrontmatterBlock(inv[p].outcome.weather))

\* C5: after a successful insertWeather the rendered text stands at the cursor
\* of insertion time and the cursor stands right after its last character, for
\* every template, those of several lines included.
C5_CursorAfterInsertedText ==
    \A p \in DOMAIN inv :
        (inv[p].op = "insertWeather" /\ Finished(p) /\ inv[p].outcome.ok) =>
            LET line == formatWeather(inv[p].outcome.weather, settings.format, settings)
                off == posToOffset(inv[p].at.doc, inv[p].at.cursor)
            IN  /\ doc = Slice(inv[p].at.doc, 0, off) \o line \o SliceFrom(inv[p].at.doc, off)
                /\ cursor = offsetToPos(doc, off + Len(line))

\* C8: a forecast request is issued only after the same fetch's geocoding
\* request has returned a result; a geocoding response with no result ends the
\* fetch with an error whose message holds the queried location, and that fetch
\* never issues a forecast request.
C8_GeocodeThenForecast ==
    \A p \in DOMAIN inv :
        /\ \A i \in RequestsBy(p) :
             requests[i].kind = "forecast" =>
                /\ inv[p].geoResp = "found"
                /\ \E j \in RequestsBy(p) : j < i /\ requests[j].kind = "geocode"
        /\ inv[p].geoResp \in {"missing", "empty"} =>
                /\ inv[p].pc \in {"settled", "done"}
                /\ ~inv[p].outcome.ok
                /\ Includes(inv[p].outcome.err, "\"" \o settings.location \o "\"")
                /\ \A i \in RequestsBy(p) : requests[i].kind # "forecast"

\* a fetch for a location that is not empty has ended after a geocoding
\* response with an empty results array
C8_Witness ==
    \E p \in DOMAIN inv :
        /\ inv[p].geoResp = "empty"
        /\ Finished(p)
        /\ settings.location # ""

\* what a finished command has put out: the rendered line, or the six lines
OutputOf(p) ==
    IF inv[p].op = "insertWeather"
    THEN formatWeather(inv[p].outcome.weather, settings.format, settings)
    ELSE FrontmatterBlock(inv[p].outcome.weather)

\* the editor after the commands of order have run one after the other on ed
RECURSIVE RunInOrder(_, _)
RunInOrder(ed, order) ==
    IF order = <<>> THEN ed
    ELSE LET p == Head(order)
             after == IF inv[p].op = "insertWeather"
                      THEN insertWeather(ed, inv[p].outcome, settings)
                      ELSE insertWeatherFrontmatter(ed, inv[p].outcome, host)
         IN  RunInOrder([doc |-> after.doc, cursor |-> after.cursor], Tail(order))

\* every invocation is a command that has ended after a successful fetch
AllInserted ==
    \A p \in DOMAIN inv : inv[p].op \in Commands /\ Finished(p) /\ inv[p].outcome.ok

\* C9: when overlapping commands have all fetched successfully, each has
\* issued its own requests, the document holds the output of each, and the
\* document is the one the commands give when run one after the other in the
\* order in which their fetches completed.
C9_OverlapLosesNothing ==
    AllInserted =>
        /\ \A p \in DOMAIN inv :
             /\ Cardinality(RequestsBy(p)) = IF settings.apiProvider = "wttr" THEN 1 ELSE 2
             /\ Includes(doc, OutputOf(p))
        /\ doc = RunInOrder(initial, completed).doc

-----------------------------------------------------------------------------
(* Claims about formatWeather (SpecFormat) *)

Tokens ==
    {TokIcon, TokTemp, TokConditions, TokWind, TokHumidity, TokFeelsLike, TokLocation}

\* the record field a token names
FieldOf(w, tok) ==
    CASE tok = TokIcon -> w.icon
      [] tok = TokTemp -> w.temp
      [] tok = TokConditions -> w.conditions
      [] tok = TokWind -> w.wind
      [] tok = TokHumidity -> w.humidity
      [] tok = TokFeelsLike -> w.feelsLike
      [] tok = TokLocation -> w.location

Occurrences(s, tok) == Cardinality({i \in 0..Len(s) : MatchesAt(s, tok, i)})

HasToken(s) == \E tok \in Tokens : Includes(s, tok)

UsesEachTokenOnce(s) == \A tok \in Tokens : Occurrences(s, tok) = 1

\* literal substitution in one pass: each token of the template gives way to
\* its field value as it stands, and a value put in is not read again
RECURSIVE LiteralSubstitute(_, _, _)
LiteralSubstitute(s, w, i) ==
    LET found == {tok \in Tokens : IndexOf(s, tok, i) >= 0}
        at == Least({IndexOf(s, tok, i) : tok \in found})
        tok == CHOOSE t \in found : IndexOf(s, t, i) = at
    IN  IF found = {} THEN SliceFrom(s, i)
        ELSE Slice(s, i, at) \o FieldOf(w, tok) \o LiteralSubstitute(s, w, at + Len(tok))

HasWindSegment(s) == \E i \in 0..(Len(s) - 1) : MatchWindAt(s, i) >= 0

HasHumiditySegment(s) == \E i \in 0..(Len(s) - 1) : MatchHumidityAt(s, i) >= 0

\* C6: with show-wind and show-humidity on, a template that uses each of the
\* seven tokens exactly once is rendered as the trimmed template with every
\* token replaced by exactly its field value, whatever the record holds.
C6_LiteralRoundTrip ==
    (/\ result # None
     /\ settings.showWind
     /\ settings.showHumidity
     /\ UsesEachTokenOnce(settings.format))
    => result = LiteralSubstitute(Trim(settings.format), weather, 0)

\* C7 as stated: a template with none of the seven tokens is returned
\* unchanged apart from trimming, for every record and every combination of the
\* two flags.
C7_TokenFreeUnchanged ==
    (result # None /\ ~HasToken(settings.format))
    => result = Trim(settings.format)

\* C7 as amended: a template with none of the seven tokens is returned
\* unchanged apart from trimming, for every record, whenever each flag is
\* either on or finds no segment of its shape ("| Wind: X Y", "| Humidity: X")
\* in the template.
C7_TokenFreeUnchangedUnlessStripped ==
    (/\ result # None
     /\ ~HasToken(settings.format)
     /\ (settings.showWind \/ ~HasWindSegment(settings.format))
     /\ (settings.showHumidity \/ ~HasHumiditySegment(settings.format)))
    => result = Trim(settings.format)

\* a token-free template with both flags off, rendered, where trimming did
\* remove something and text remains
C7_Witness ==
    /\ result # None
    /\ ~HasToken(settings.format)
    /\ ~settings.showWind
    /\ ~settings.showHumidity
    /\ result = Trim(settings.format)
    /\ result # settings.format
    /\ result # ""

-----------------------------------------------------------------------------
(* Claims about wmoCodeToCondition (SpecWmo) *)

\* what the lookup must have returned for the code it was given
WmoTotal ==
    cond # <<>> =>
        /\ code \in WmoCodes => <<code, cond[1].text, cond[1].icon>> \in WmoTable
        /\ code \notin WmoCodes => cond[1] = [text |-> "Unknown", icon |-> IconThermometer]
        /\ code = 2 => cond[1] = [text |-> "Partly cloudy", icon |-> IconPartly]

\* C10 as stated: the table defines exactly 26 codes, each code of the table
\* returns its fixed pair, and every other code returns ("Unknown",
\* thermometer) without an error.
C10_TotalOver26Codes ==
    /\ Cardinality(WmoCodes) = 26
    /\ Cardinality(WmoTable) = 26
    /\ WmoTotal

\* C10 as amended: the table defines exactly 28 codes, each code of the table
\* returns its fixed pair, and every other code returns ("Unknown",
\* thermometer) without an error.
C10_TotalOver28Codes ==
    /\ Cardinality(WmoCodes) = 28
    /\ Cardinality(WmoTable) = 28
    /\ WmoTotal

\* a code outside the table has been looked up and gave the fallback pair
C10_Witness ==
    /\ cond # <<>>
    /\ code \notin WmoCodes
    /\ cond[1].text = "Unknown"

=============================================================================
